---- MODULE Spec2Model ----
(***************************************************************************)
(* Model of the two code-block re-render scripts of the repository:        *)
(*   "v04" : src/unnamed/part_000  (CodeBlock Re-render Trigger 0.4)       *)
(*   "v3"  : src/index.js, lines 1-116 (CodeBlock-Render-Fixer-v3)         *)
(* Time is counted in milliseconds; every timer holds the time remaining   *)
(* until it fires.  A mutation made by a task is delivered to the          *)
(* observers of the element in the microtask that follows the task, so a   *)
(* task and the delivery of its mutation records form one step.            *)
(***************************************************************************)
EXTENDS Integers, Sequences, FiniteSets, TLC

VARIABLES
    script,          \* which of the two scripts runs in the page
    host,            \* the host page's globals and DOM behaviour
    lastCall,        \* the last call of tryTriggerRerender / triggerPartialRender
    chatEl,          \* whether the #chat element exists
    mesid,           \* per message: the mesid attribute of the .mes element
    inChat,          \* per message: whether the .mes element is a child of #chat
    dom,             \* per message: the code blocks of its .mes_text, in order
    chatObservers,   \* number of chat observers the script installed
    setupTimer,      \* index.js: the pending setupObservers retry
    observed,        \* the set of observed elements (state.observed / observedElements)
    observers,       \* per message text: number of the script's observers on it
    messageId,       \* part_000: the id captured by the observer's closure
    timer,           \* part_000: the closure's debounce timer
    debounceTimers,  \* index.js: the debounce timers by message id
    retries,         \* part_000: pending 250 ms retries
    markerTimers,    \* part_000: pending removals of marker spans
    rescans,         \* part_000: pending chatLoaded re-scans
    sinceBatch,      \* per message: ms since its last qualifying mutation batch
    dirty,           \* per message: a qualifying batch came since its last evaluation
    lastStep         \* the step taken last: its operation and message

pageVars == <<chatEl, mesid, inChat, dom>>
obsVars == <<chatObservers, setupTimer, observed, observers, messageId, rescans>>
timerVars == <<timer, debounceTimers, retries, markerTimers>>
histVars == <<sinceBatch, dirty, lastStep>>
vars == <<script, host, lastCall, pageVars, obsVars, timerVars, histVars>>

Scripts == {"v04", "v3"}

(***************************************************************************)
(* Bounds of the model.                                                    *)
(***************************************************************************)
MaxFns == 2
MaxButtons == 2
MaxPres == 2
MaxObservers == 3
MaxRescans == 1

(***************************************************************************)
(* Strings are sequences of one-character strings.                         *)
(***************************************************************************)
UpperLetters == <<"A","B","C","D","E","F","G","H","I","J","K","L","M",
                  "N","O","P","Q","R","S","T","U","V","W","X","Y","Z">>
LowerLetters == <<"a","b","c","d","e","f","g","h","i","j","k","l","m",
                  "n","o","p","q","r","s","t","u","v","w","x","y","z">>

LowerChar(c) ==
    IF \E i \in 1..Len(UpperLetters) : UpperLetters[i] = c
    THEN LowerLetters[CHOOSE i \in 1..Len(UpperLetters) : UpperLetters[i] = c]
    ELSE c

\* String.prototype.toLowerCase
toLowerCase(s) == [i \in 1..Len(s) |-> LowerChar(s[i])]

\* String.prototype.includes
includes(s, t) ==
    \E k \in 0..(Len(s) - Len(t)) : \A j \in 1..Len(t) : s[k + j] = t[j]

IsSpace(c) == c = " "

\* String.prototype.trim
RECURSIVE trim(_)
trim(s) ==
    IF s = <<>> THEN s
    ELSE IF IsSpace(s[1]) THEN trim(Tail(s))
    ELSE IF IsSpace(s[Len(s)]) THEN trim(SubSeq(s, 1, Len(s) - 1))
    ELSE s

FRONTEND_MARKERS ==
    << <<"h","t","m","l",">">>,
       <<"<","h","e","a","d",">">>,
       <<"<","b","o","d","y">> >>

\* part_000 isFrontend: falsy content is rejected, the content is lower-cased
isFrontendV04(content) ==
    IF content = <<>> THEN FALSE
    ELSE \E i \in 1..Len(FRONTEND_MARKERS) :
            includes(toLowerCase(content), FRONTEND_MARKERS[i])

\* index.js isFrontend: the content is searched as it is
isFrontendV3(content) ==
    \E i \in 1..Len(FRONTEND_MARKERS) : includes(content, FRONTEND_MARKERS[i])

(***************************************************************************)
(* The host page.                                                          *)
(*   th  window.TavernHelper: absent, null, with refreshOneMessage that    *)
(*       returns ("ok") or throws                                          *)
(*   es  window.eventSource: absent, present without a callable emit,      *)
(*       present with emit                                                 *)
(*   et  window.event_types: absent, null, an object without or with       *)
(*       MESSAGE_UPDATED                                                   *)
(*   emitThrows  the event names for which emit throws                     *)
(*   dispatchThrows  CustomEvent / dispatchEvent throws                    *)
(*   globalFns  the window functions whose name holds message or refresh,  *)
(*       in property order, each returning or throwing                     *)
(*   buttons  the button-like elements of a message text, in document      *)
(*       order: label not matching, click returning, click throwing        *)
(*   markerThrows  createElement / appendChild throws                      *)
(***************************************************************************)
NoEl == 0
NoId == "null"
Undefined == "undefined"

candidates ==
    <<"MESSAGE_UPDATED", "message_updated", "messageUpdated",
      "MESSAGE:UPDATED", "render_message", "refresh_message">>

\* the value of event_types.MESSAGE_UPDATED in the host
MESSAGE_UPDATED == "message_updated"

CandidateSet == {candidates[i] : i \in 1..Len(candidates)}

ThStates == {"absent", "null", "ok", "throws"}
EsStates == {"absent", "noemit", "ok"}
EtStates == {"absent", "null", "noMU", "MU"}
EmitThrowCases == {{}, {"MESSAGE_UPDATED", "message_updated"},
                   CandidateSet \cup {Undefined}}
FnKinds == {"ok", "throws"}
ButtonKinds == {"nomatch", "ok", "throws"}

SeqsUpTo(S, n) == UNION {[1..k -> S] : k \in 0..n}

Hosts ==
    [th : ThStates, es : EsStates, et : EtStates, emitThrows : EmitThrowCases,
     dispatchThrows : BOOLEAN, globalFns : SeqsUpTo(FnKinds, MaxFns),
     buttons : SeqsUpTo(ButtonKinds, MaxButtons), markerThrows : BOOLEAN]

\* Number(messageId): null and "0" both convert to 0
Number(id) ==
    CASE id = NoId -> 0
      [] id = "0" -> 0
      [] id = "1" -> 1
      [] id = "2" -> 2
      [] OTHER -> -1

(***************************************************************************)
(* tryTriggerRerender.  acc is the state of one call: done/ret once a      *)
(* return statement ran, trace the calls made into the host, marker        *)
(* whether a marker span was appended.                                     *)
(***************************************************************************)
Acc0 == [done |-> FALSE, ret |-> FALSE, trace |-> <<>>, marker |-> FALSE]

Attempt(acc, s, arg, n, ok) ==
    [acc EXCEPT !.trace = Append(@, [s |-> s, arg |-> arg, n |-> n, ok |-> ok])]

Return(acc, v) == [acc EXCEPT !.done = TRUE, !.ret = v]

\* eventSource.emit(name, ...) returns
EmitOk(h, name) == h.es = "ok" /\ name \notin h.emitThrows

\* Primary: TavernHelper.refreshOneMessage
TryApi(acc, h, el, n) ==
    IF acc.done THEN acc
    ELSE IF h.th = "ok"
         THEN Return(Attempt(acc, "api", "refreshOneMessage", n, TRUE), TRUE)
    ELSE IF h.th = "throws"
         THEN Attempt(acc, "api", "refreshOneMessage", n, FALSE)
    ELSE acc

\* a loop over the event names that goes on after an emit that returned
RECURSIVE EmitEveryCandidate(_, _, _, _)
EmitEveryCandidate(acc, h, n, i) ==
    IF i > Len(candidates) THEN acc
    ELSE EmitEveryCandidate(
             Attempt(acc, "emit", candidates[i], n, EmitOk(h, candidates[i])),
             h, n, i + 1)

\* the loop over the likely event names, from candidate i on
RECURSIVE EmitCandidates(_, _, _, _)
EmitCandidates(acc, h, n, i) ==
    IF i > Len(candidates) THEN acc
    ELSE IF EmitOk(h, candidates[i])
         THEN Return(Attempt(acc, "emit", candidates[i], n, TRUE), TRUE)
    ELSE EmitCandidates(Attempt(acc, "emit", candidates[i], n, FALSE), h, n, i + 1)

\* Secondary: eventSource.emit
TryEventBus(acc, h, el, n) ==
    IF acc.done \/ h.es = "absent" THEN acc
    ELSE IF h.et = "MU"
         THEN IF EmitOk(h, MESSAGE_UPDATED)
              THEN Return(Attempt(acc, "emit", MESSAGE_UPDATED, n, TRUE), TRUE)
              ELSE Attempt(acc, "emit", MESSAGE_UPDATED, n, FALSE)
    ELSE EmitCandidates(acc, h, n, 1)

\* Third: CustomEvent on the message node
TryDispatch(acc, h, el, n) ==
    IF acc.done \/ el = NoEl THEN acc
    ELSE IF h.dispatchThrows
         THEN Attempt(acc, "dom", "tavernhelper:message-updated", n, FALSE)
    ELSE Return(Attempt(acc, "dom", "tavernhelper:message-updated", n, TRUE), TRUE)

RECURSIVE CallGlobals(_, _, _, _)
CallGlobals(acc, h, n, i) ==
    IF i > Len(h.globalFns) THEN acc
    ELSE IF h.globalFns[i] = "ok"
         THEN Return(Attempt(acc, "global", "fn", n, TRUE), TRUE)
    ELSE CallGlobals(Attempt(acc, "global", "fn", n, FALSE), h, n, i + 1)

\* Fourth: global functions by name heuristics
TryGlobals(acc, h, el, n) ==
    IF acc.done THEN acc ELSE CallGlobals(acc, h, n, 1)

RECURSIVE ClickButtons(_, _, _, _)
ClickButtons(acc, h, n, i) ==
    IF i > Len(h.buttons) THEN acc
    ELSE IF h.buttons[i] = "nomatch" THEN ClickButtons(acc, h, n, i + 1)
    ELSE IF h.buttons[i] = "ok"
         THEN Return(Attempt(acc, "click", "button", n, TRUE), TRUE)
    ELSE Attempt(acc, "click", "button", n, FALSE)

\* Fifth: render buttons in the message
TryButtons(acc, h, el, n) ==
    IF acc.done \/ el = NoEl THEN acc ELSE ClickButtons(acc, h, n, 1)

\* Last resort: a marker span appended to the message text
TryMarker(acc, h, el, n) ==
    IF acc.done \/ el = NoEl THEN acc
    ELSE IF h.markerThrows
         THEN Attempt(acc, "marker", "__cb_rerender_marker__", n, FALSE)
    ELSE Return([Attempt(acc, "marker", "__cb_rerender_marker__", n, TRUE)
                    EXCEPT !.marker = TRUE], TRUE)

\* an end of the function that reports success whenever anything was tried
FallOffAnyAttempt(acc) ==
    IF acc.done THEN acc ELSE Return(acc, acc.trace # <<>>)

\* the closing "return false"
FallOff(acc) == IF acc.done THEN acc ELSE Return(acc, FALSE)

tryTriggerRerender(msgId, mesTextEl, h) ==
    LET n  == Number(msgId)
        a1 == TryApi(Acc0, h, mesTextEl, n)
        a2 == TryEventBus(a1, h, mesTextEl, n)
        a3 == TryDispatch(a2, h, mesTextEl, n)
        a4 == TryGlobals(a3, h, mesTextEl, n)
        a5 == TryButtons(a4, h, mesTextEl, n)
        a6 == TryMarker(a5, h, mesTextEl, n)
    IN  FallOff(a6)

(***************************************************************************)
(* index.js triggerPartialRender: no try/catch; escaped tells that an      *)
(* exception left the function.                                            *)
(***************************************************************************)
PartialEmit(h, n) ==
    IF h.es = "absent" \/ h.et = "absent" THEN [trace |-> <<>>, escaped |-> FALSE]
    ELSE IF h.et = "null" THEN [trace |-> <<>>, escaped |-> TRUE]
    ELSE LET name == IF h.et = "MU" THEN MESSAGE_UPDATED ELSE Undefined
             ok   == EmitOk(h, name)
         IN  [trace |-> <<[s |-> "emit", arg |-> name, n |-> n, ok |-> ok]>>,
              escaped |-> ~ok]

triggerPartialRender(msgId, h) ==
    IF msgId = NoId THEN [trace |-> <<>>, escaped |-> FALSE]
    ELSE PartialEmit(h, Number(msgId))

(***************************************************************************)
(* The page: messages, their code blocks, timers.                          *)
(***************************************************************************)
Els == {1, 2}
Ids == {"0", "1", "2"}
IdVals == Ids \cup {NoId}

DEBOUNCE_MS == 120
DEBOUNCE_V3 == 600
RETRY_MS == 250
MARKER_MS == 300
RESCAN_MS == 400
SETUP_RETRY_MS == 1000

NoTimer == -1
NoDebounce == [el |-> NoEl, rem |-> NoTimer]

Debounce(s) == IF s = "v04" THEN DEBOUNCE_MS ELSE DEBOUNCE_V3

TxtPlain == <<"h", "i">>
TxtBody == <<" ", "<", "b", "o", "d", "y", ">">>
TxtBodyUpper == <<"<", "B", "O", "D", "Y", ">">>
Texts == {TxtPlain, TxtBody, TxtBodyUpper}

\* a <pre>: its text, whether its parent is a TH-render element, whether that
\* parent holds an iframe
Pre(text, th, iframe) == [text |-> text, th |-> th, iframe |-> iframe]

isPreRendered(pre) == IF pre.th THEN pre.iframe ELSE FALSE

\* part_000: the loop over the <pre> blocks of the timer callback
RECURSIVE ScanPres(_, _, _)
ScanPres(pres, i, found) ==
    IF i > Len(pres) THEN [foundFrontend |-> found, needsRender |-> FALSE]
    ELSE IF ~isFrontendV04(trim(pres[i].text)) THEN ScanPres(pres, i + 1, found)
    ELSE IF ~isPreRendered(pres[i])
         THEN [foundFrontend |-> TRUE, needsRender |-> TRUE]
    ELSE ScanPres(pres, i + 1, TRUE)

\* a scan that asks for a render as soon as any block holds a marker
NeedsRenderAnyFrontend(pres) == ScanPres(pres, 1, FALSE).foundFrontend

NeedsRenderV04(pres) ==
    LET r == ScanPres(pres, 1, FALSE)
    IN  IF ~r.foundFrontend THEN FALSE
        ELSE IF ~r.needsRender THEN FALSE
        ELSE TRUE

\* index.js: mesTextEl.querySelector('iframe')
HasIframe(pres) == \E i \in 1..Len(pres) : pres[i].iframe

\* index.js: mesTextEl.querySelector('pre')?.textContent || ''
FirstPreText(pres) == IF pres = <<>> THEN <<>> ELSE pres[1].text

NeedsRenderV3(pres) ==
    IF HasIframe(pres) THEN FALSE ELSE isFrontendV3(FirstPreText(pres))

\* index.js getMessageId
getMessageId(e) == mesid[e]

(***************************************************************************)
(* Mutation batches and the observer callbacks.  A record tells its type,  *)
(* how many nodes it added and removed, and whether a removed node is or   *)
(* holds a TH-render element.                                              *)
(***************************************************************************)
ChildList(added, removed, removedTH) ==
    [type |-> "childList", added |-> added, removed |-> removed,
     removedTH |-> removedTH]

\* the options of observe(): part_000 childList, subtree, characterData;
\* index.js childList, subtree
ObservedTypes(s) ==
    IF s = "v04" THEN {"childList", "characterData"} ELSE {"childList"}

Delivered(batch) ==
    LET Keep(m) == m.type \in ObservedTypes(script) IN SelectSeq(batch, Keep)

\* part_000: the quick filter
Significant(batch) ==
    \E i \in 1..Len(batch) :
        \/ batch[i].type = "childList" /\ (batch[i].added > 0 \/ batch[i].removed > 0)
        \/ batch[i].type = "characterData"
        \/ batch[i].type = "attributes"

\* index.js: shouldRender
ShouldRender(batch) ==
    \E i \in 1..Len(batch) : batch[i].removed > 0 /\ batch[i].removedTH

\* the callback of an observer of e runs
Called(e, batch) == observers[e] > 0 /\ Delivered(batch) # <<>>

\* the callback reaches its setTimeout
Armed(e, batch) ==
    /\ Called(e, batch)
    /\ IF script = "v04" THEN Significant(Delivered(batch))
       ELSE ShouldRender(Delivered(batch)) /\ getMessageId(e) # NoId

\* part_000: clearTimeout(timer); timer = setTimeout(..., DEBOUNCE_MS)
OnMutationsV04(tm, e, batch) ==
    IF script = "v04" /\ Armed(e, batch)
    THEN [tm EXCEPT ![e] = DEBOUNCE_MS] ELSE tm

\* index.js: clearTimeout(debounceTimers[id]); debounceTimers[id] = setTimeout(..., 600)
OnMutationsV3(dt, e, batch) ==
    IF script = "v3" /\ Armed(e, batch)
    THEN [dt EXCEPT ![getMessageId(e)] = [el |-> e, rem |-> DEBOUNCE_V3]] ELSE dt

\* the history of a batch: armed tells that it (re)started the debounce
NoteBatch(sb, dy, e, batch) ==
    /\ sinceBatch' = IF Armed(e, batch) THEN [sb EXCEPT ![e] = 0] ELSE sb
    /\ dirty' = IF Armed(e, batch) THEN [dy EXCEPT ![e] = TRUE] ELSE dy

Step(op, e, armed, called) ==
    [op |-> op, el |-> e, armed |-> armed, called |-> called]

NoBatch == <<>>

(***************************************************************************)
(* What the host and the translator do to a message.                       *)
(***************************************************************************)
MarkersIn(e) == {m \in markerTimers : m.el = e /\ m.inDom}

HasTH(pres) == \E i \in 1..Len(pres) : pres[i].th

\* the translator (or an editor) replaces the content of the message text
Translate(e, new) ==
    LET removed == Len(dom[e]) + Cardinality(MarkersIn(e))
        batch   == <<ChildList(Len(new), removed, HasTH(dom[e]))>>
    IN  /\ inChat[e]
        /\ Len(new) + removed > 0
        /\ dom' = [dom EXCEPT ![e] = new]
        /\ markerTimers' = {IF m.el = e THEN [m EXCEPT !.inDom = FALSE] ELSE m
                              : m \in markerTimers}
        /\ timer' = OnMutationsV04(timer, e, batch)
        /\ debounceTimers' = OnMutationsV3(debounceTimers, e, batch)
        /\ NoteBatch(sinceBatch, dirty, e, batch)
        /\ lastStep' = Step("mutate", e, Armed(e, batch), FALSE)
        /\ UNCHANGED <<script, host, lastCall, chatEl, mesid, inChat, obsVars,
                       retries>>

\* the host renders block i: the <pre> moves into a TH-render with an iframe
HostRender(e, i) ==
    LET batch == <<ChildList(1, 1, FALSE)>>
    IN  /\ inChat[e]
        /\ i \in 1..Len(dom[e])
        /\ ~dom[e][i].th
        /\ isFrontendV3(dom[e][i].text)
        /\ dom' = [dom EXCEPT ![e][i] = Pre(@.text, TRUE, TRUE)]
        /\ timer' = OnMutationsV04(timer, e, batch)
        /\ debounceTimers' = OnMutationsV3(debounceTimers, e, batch)
        /\ NoteBatch(sinceBatch, dirty, e, batch)
        /\ lastStep' = Step("mutate", e, Armed(e, batch), FALSE)
        /\ UNCHANGED <<script, host, lastCall, chatEl, mesid, inChat, obsVars,
                       retries, markerTimers>>

\* the host renumbers a message: the mesid attribute of the .mes changes to
\* an id that no other message carries
Renumber(e, id) ==
    /\ inChat[e]
    /\ mesid[e] # NoId
    /\ id # mesid[e]
    /\ \A o \in Els \ {e} : mesid[o] # id
    /\ mesid' = [mesid EXCEPT ![e] = id]
    /\ lastStep' = Step("renumber", e, FALSE, FALSE)
    /\ UNCHANGED <<script, host, lastCall, chatEl, inChat, dom, obsVars,
                   timerVars, sinceBatch, dirty>>

(***************************************************************************)
(* Time.                                                                   *)
(***************************************************************************)
Rems ==
    {timer[e] : e \in Els} \cup {debounceTimers[k].rem : k \in Ids}
    \cup {r.rem : r \in retries} \cup {m.rem : m \in markerTimers}
    \cup rescans \cup {setupTimer}

Pending == Rems \ {NoTimer}

Sub(r, d) == IF r = NoTimer THEN r ELSE r - d

\* the history stops counting after two debounce intervals
SinceCap == 2 * Debounce(script)

Advance(d) ==
    /\ d > 0
    /\ \A r \in Pending : d <= r
    /\ timer' = [e \in Els |-> Sub(timer[e], d)]
    /\ debounceTimers' = [k \in Ids |-> [debounceTimers[k] EXCEPT !.rem = Sub(@, d)]]
    /\ retries' = {[r EXCEPT !.rem = @ - d] : r \in retries}
    /\ markerTimers' = {[m EXCEPT !.rem = @ - d] : m \in markerTimers}
    /\ rescans' = {r - d : r \in rescans}
    /\ setupTimer' = Sub(setupTimer, d)
    /\ sinceBatch' = [e \in Els |->
                        IF dirty[e] /\ sinceBatch[e] + d <= SinceCap
                        THEN sinceBatch[e] + d ELSE sinceBatch[e]]
    /\ lastStep' = Step("tick", NoEl, FALSE, FALSE)
    /\ UNCHANGED <<script, host, lastCall, pageVars, chatObservers, observed,
                   observers, messageId, dirty>>

\* time passes: to the next deadline, or half a debounce interval
Tick == \E d \in {Debounce(script) \div 2} \cup Pending : Advance(d)

(***************************************************************************)
(* The timer callbacks.                                                    *)
(***************************************************************************)
CallRecord(fn, id, r, escaped) ==
    [fn |-> fn, id |-> id, ret |-> r.ret, trace |-> r.trace, escaped |-> escaped]

MarkerBatch(r) == IF r.marker THEN <<ChildList(1, 0, FALSE)>> ELSE NoBatch

\* a marker whose removal is never scheduled
WithMarkerLeft(mts, e, r) ==
    IF r.marker THEN mts \cup {[el |-> e, rem |-> NoTimer, inDom |-> TRUE]}
    ELSE mts

WithMarker(mts, e, r) ==
    IF r.marker THEN mts \cup {[el |-> e, rem |-> MARKER_MS, inDom |-> TRUE]}
    ELSE mts

\* a retry that is scheduled whatever the immediate call returned
WithRetryAlways(rts, e, id, r) ==
    rts \cup {[el |-> e, id |-> id, rem |-> RETRY_MS]}

\* part_000: the retry is scheduled when the immediate call returned false
WithRetry(rts, e, id, r) ==
    IF ~r.ret THEN rts \cup {[el |-> e, id |-> id, rem |-> RETRY_MS]} ELSE rts

\* part_000: the debounce timer of e fires
EvaluateV04(e) ==
    /\ script = "v04"
    /\ timer[e] = 0
    /\ IF NeedsRenderV04(dom[e])
       THEN LET r     == tryTriggerRerender(messageId[e], e, host)
                batch == MarkerBatch(r)
                sb    == [sinceBatch EXCEPT ![e] = 0]
                dy    == [dirty EXCEPT ![e] = FALSE]
            IN  /\ lastCall' = CallRecord("tryTriggerRerender", messageId[e], r, FALSE)
                /\ markerTimers' = WithMarker(markerTimers, e, r)
                /\ retries' = WithRetry(retries, e, messageId[e], r)
                /\ timer' = OnMutationsV04([timer EXCEPT ![e] = NoTimer], e, batch)
                /\ NoteBatch(sb, dy, e, batch)
                /\ lastStep' = Step("eval", e, Armed(e, batch), TRUE)
       ELSE /\ timer' = [timer EXCEPT ![e] = NoTimer]
            /\ sinceBatch' = [sinceBatch EXCEPT ![e] = 0]
            /\ dirty' = [dirty EXCEPT ![e] = FALSE]
            /\ lastStep' = Step("eval", e, FALSE, FALSE)
            /\ UNCHANGED <<lastCall, markerTimers, retries>>
    /\ UNCHANGED <<script, host, pageVars, obsVars, debounceTimers>>

\* part_000: a 250 ms retry fires
RetryFire(rt) ==
    /\ rt \in retries
    /\ rt.rem = 0
    /\ LET r     == tryTriggerRerender(rt.id, rt.el, host)
           batch == MarkerBatch(r)
       IN  /\ lastCall' = CallRecord("tryTriggerRerender", rt.id, r, FALSE)
           /\ markerTimers' = WithMarker(markerTimers, rt.el, r)
           /\ retries' = retries \ {rt}
           /\ timer' = OnMutationsV04(timer, rt.el, batch)
           /\ NoteBatch(sinceBatch, dirty, rt.el, batch)
           /\ lastStep' = Step("retry", rt.el, Armed(rt.el, batch), TRUE)
    /\ UNCHANGED <<script, host, pageVars, obsVars, debounceTimers>>

\* part_000: marker.remove() after 300 ms
MarkerRemove(m) ==
    /\ m \in markerTimers
    /\ m.rem = 0
    /\ LET batch == IF m.inDom THEN <<ChildList(0, 1, FALSE)>> ELSE NoBatch
       IN  /\ markerTimers' = markerTimers \ {m}
           /\ timer' = OnMutationsV04(timer, m.el, batch)
           /\ NoteBatch(sinceBatch, dirty, m.el, batch)
           /\ lastStep' = Step("unmark", m.el, Armed(m.el, batch), FALSE)
    /\ UNCHANGED <<script, host, lastCall, pageVars, obsVars, debounceTimers,
                   retries>>

\* index.js: the debounce timer stored under id k fires
EvaluateV3(k) ==
    /\ script = "v3"
    /\ debounceTimers[k].rem = 0
    /\ LET e == debounceTimers[k].el
       IN  /\ debounceTimers' = [debounceTimers EXCEPT ![k] = NoDebounce]
           /\ sinceBatch' = [sinceBatch EXCEPT ![e] = 0]
           /\ dirty' = [dirty EXCEPT ![e] = FALSE]
           /\ IF NeedsRenderV3(dom[e])
              THEN LET r == triggerPartialRender(getMessageId(e), host)
                   IN  /\ lastCall' = [fn |-> "triggerPartialRender",
                                       id |-> getMessageId(e), ret |-> FALSE,
                                       trace |-> r.trace, escaped |-> r.escaped]
                       /\ lastStep' = Step("eval", e, FALSE, TRUE)
              ELSE /\ lastStep' = Step("eval", e, FALSE, FALSE)
                   /\ UNCHANGED lastCall
    /\ UNCHANGED <<script, host, pageVars, obsVars, timer, retries, markerTimers>>

(***************************************************************************)
(* Setup and the observers of the message texts.                           *)
(***************************************************************************)
\* part_000 observeMesText: an element of state.observed is skipped
ObserveV04(st, e) ==
    IF e \in st.observed THEN st
    ELSE [observed |-> st.observed \cup {e},
          observers |-> [st.observers EXCEPT ![e] = @ + 1],
          messageId |-> [st.messageId EXCEPT ![e] = mesid[e]]]

\* index.js observeMesText: observedElements is asked, never added to
ObserveV3(st, e) ==
    IF e \in st.observed THEN st
    ELSE [st EXCEPT !.observers[e] = @ + 1]

observeMesText(st, e) ==
    IF script = "v04" THEN ObserveV04(st, e) ELSE ObserveV3(st, e)

\* forEach(observeMesText) over the elements of S, in document order
RECURSIVE ObserveAll(_, _)
ObserveAll(st, S) ==
    IF S = {} THEN st
    ELSE LET e == CHOOSE x \in S : \A y \in S : x <= y
         IN  ObserveAll(observeMesText(st, e), S \ {e})

RECURSIVE Times(_, _, _)
Times(n, st, e) == IF n = 0 THEN st ELSE Times(n - 1, observeMesText(st, e), e)

ObsState == [observed |-> observed, observers |-> observers, messageId |-> messageId]

SetObsState(st) ==
    /\ observed' = st.observed
    /\ observers' = st.observers
    /\ messageId' = st.messageId

InChatEls == {e \in Els : inChat[e]}

\* part_000 setup(): runs once; without #chat it falls back to the body
setup ==
    /\ script = "v04"
    /\ setupTimer = 0
    /\ setupTimer' = NoTimer
    /\ SetObsState(ObserveAll(ObsState, InChatEls))
    /\ chatObservers' = chatObservers + 1
    /\ lastStep' = Step("setup", NoEl, FALSE, FALSE)
    /\ UNCHANGED <<script, host, lastCall, pageVars, rescans, timerVars,
                   sinceBatch, dirty>>

\* a setupObservers that goes on polling after it has installed the observers
setupObserversKeepPolling ==
    /\ script = "v3"
    /\ setupTimer = 0
    /\ setupTimer' = SETUP_RETRY_MS
    /\ IF ~chatEl
       THEN UNCHANGED <<observed, observers, messageId, chatObservers>>
       ELSE /\ SetObsState(ObserveAll(ObsState, InChatEls))
            /\ chatObservers' = chatObservers + 1
    /\ lastStep' = Step("setup", NoEl, FALSE, FALSE)
    /\ UNCHANGED <<script, host, lastCall, pageVars, rescans, timerVars,
                   sinceBatch, dirty>>

\* index.js setupObservers(): retried every second while #chat is missing
setupObservers ==
    /\ script = "v3"
    /\ setupTimer = 0
    /\ IF ~chatEl
       THEN /\ setupTimer' = SETUP_RETRY_MS
            /\ UNCHANGED <<observed, observers, messageId, chatObservers>>
       ELSE /\ setupTimer' = NoTimer
            /\ SetObsState(ObserveAll(ObsState, InChatEls))
            /\ chatObservers' = chatObservers + 1
    /\ lastStep' = Step("setup", NoEl, FALSE, FALSE)
    /\ UNCHANGED <<script, host, lastCall, pageVars, rescans, timerVars,
                   sinceBatch, dirty>>

\* the host creates the #chat element
ChatAppears ==
    /\ ~chatEl
    /\ chatEl' = TRUE
    /\ lastStep' = Step("chat", NoEl, FALSE, FALSE)
    /\ UNCHANGED <<script, host, lastCall, mesid, inChat, dom, obsVars,
                   timerVars, sinceBatch, dirty>>

\* the host appends the .mes element of e to #chat; every chat observer
\* calls observeMesText for its .mes_text
HostAddMessage(e) ==
    /\ chatEl
    /\ ~inChat[e]
    /\ observers[e] < MaxObservers
    /\ inChat' = [inChat EXCEPT ![e] = TRUE]
    /\ SetObsState(Times(chatObservers, ObsState, e))
    /\ lastStep' = Step("add", e, FALSE, FALSE)
    /\ UNCHANGED <<script, host, lastCall, chatEl, mesid, dom, chatObservers,
                   setupTimer, rescans, timerVars, sinceBatch, dirty>>

\* the ways a message text can come into the chat other than as (part of) a
\* .mes element appended to #chat: inside an inserted wrapper element, or as
\* a .mes_text put into a .mes that is already there
InsertWays == {"nested", "text"}

\* how often a chat observer calls observeMesText for the inserted text.
\* part_000 observes the subtree and searches a node that is no .mes for
\* .mes elements; index.js observes the children of #chat and takes .mes only
ChatObserverCalls(how) ==
    IF script = "v04" /\ how = "nested" THEN 1 ELSE 0

\* the host brings the text of e into the chat in one of these ways
HostInsert(e, how) ==
    /\ chatEl
    /\ ~inChat[e]
    /\ observers[e] < MaxObservers
    /\ inChat' = [inChat EXCEPT ![e] = TRUE]
    /\ SetObsState(Times(chatObservers * ChatObserverCalls(how), ObsState, e))
    /\ lastStep' = Step(how, e, FALSE, FALSE)
    /\ UNCHANGED <<script, host, lastCall, chatEl, mesid, dom, chatObservers,
                   setupTimer, rescans, timerVars, sinceBatch, dirty>>

\* the host takes the .mes element of e out of #chat
HostRemoveMessage(e) ==
    /\ inChat[e]
    /\ inChat' = [inChat EXCEPT ![e] = FALSE]
    /\ lastStep' = Step("remove", e, FALSE, FALSE)
    /\ UNCHANGED <<script, host, lastCall, chatEl, mesid, dom, obsVars,
                   timerVars, sinceBatch, dirty>>

\* part_000: the host emits chatLoaded; the listener was registered by setup
ChatLoaded ==
    /\ script = "v04"
    /\ host.es = "ok"
    /\ chatObservers > 0
    /\ Cardinality(rescans) < MaxRescans
    /\ rescans' = rescans \cup {RESCAN_MS}
    /\ lastStep' = Step("chatLoaded", NoEl, FALSE, FALSE)
    /\ UNCHANGED <<script, host, lastCall, pageVars, chatObservers, setupTimer,
                   observed, observers, messageId, timerVars, sinceBatch, dirty>>

\* part_000: the re-scan 400 ms after chatLoaded
Rescan(r) ==
    /\ r \in rescans
    /\ r = 0
    /\ rescans' = rescans \ {r}
    /\ SetObsState(ObserveAll(ObsState, InChatEls))
    /\ lastStep' = Step("rescan", NoEl, FALSE, FALSE)
    /\ UNCHANGED <<script, host, lastCall, pageVars, chatObservers, setupTimer,
                   timerVars, sinceBatch, dirty>>

(***************************************************************************)
(* Initial states.                                                         *)
(***************************************************************************)
NoCall == [fn |-> "none", id |-> NoId, ret |-> FALSE, trace |-> <<>>,
           escaped |-> FALSE]

\* no timer pending, nothing recorded
Idle ==
    /\ lastCall = NoCall
    /\ setupTimer = NoTimer
    /\ timer = [e \in Els |-> NoTimer]
    /\ debounceTimers = [k \in Ids |-> NoDebounce]
    /\ retries = {}
    /\ markerTimers = {}
    /\ rescans = {}
    /\ sinceBatch = [e \in Els |-> 0]
    /\ dirty = [e \in Els |-> FALSE]
    /\ lastStep = Step("init", NoEl, FALSE, FALSE)

\* the script has run its setup on a chat that holds the messages of S
Observing(S) ==
    /\ chatEl = TRUE
    /\ inChat = [e \in Els |-> e \in S]
    /\ chatObservers = 1
    /\ observers = [e \in Els |-> IF e \in S THEN 1 ELSE 0]
    /\ observed = IF script = "v04" THEN S ELSE {}
    /\ messageId = [e \in Els |-> IF e \in S THEN mesid[e] ELSE NoId]

(***************************************************************************)
(* The renderer functions on their own: every host, every script.          *)
(***************************************************************************)
SampleIds == {NoId, "1"}

InitTrig ==
    /\ script \in Scripts
    /\ host \in Hosts
    /\ mesid = [e \in Els |-> NoId]
    /\ dom = [e \in Els |-> <<>>]
    /\ Observing({})
    /\ Idle

TrigCall(id) ==
    /\ lastCall.fn = "none"
    /\ LET r == tryTriggerRerender(id, 1, host)
       IN  lastCall' = CallRecord("tryTriggerRerender", id, r, FALSE)
    /\ UNCHANGED <<script, host, pageVars, obsVars, timerVars, histVars>>

PartialCall(id) ==
    /\ script = "v3"
    /\ lastCall.fn = "none"
    /\ LET r == triggerPartialRender(id, host)
       IN  lastCall' = [fn |-> "triggerPartialRender", id |-> id, ret |-> FALSE,
                        trace |-> r.trace, escaped |-> r.escaped]
    /\ UNCHANGED <<script, host, pageVars, obsVars, timerVars, histVars>>

NextTrig ==
    \/ \E id \in SampleIds : TrigCall(id)
    \/ \E id \in SampleIds : PartialCall(id)

SpecTrig == InitTrig /\ [][NextTrig]_vars

(***************************************************************************)
(* isFrontend on its own: every short content, both scripts.               *)
(***************************************************************************)
MaxContent == 5

\* a missing content (null / undefined)
NoContent == <<"null">>

FrontAlphabet == {"<", "b", "B", "o", "d", "y"}

SampleContents ==
    {NoContent, TxtPlain, TxtBody, TxtBodyUpper,
     <<"h","t","m","l",">">>, <<"<","/","H","T","M","L",">">>,
     <<"<","h","e","a","d",">">>, <<"<","H","e","a","d",">">>}

Contents == SeqsUpTo(FrontAlphabet, MaxContent) \cup SampleContents

\* isFrontend(content) of script s: what it returns, or that it threw.
\* part_000 rejects a falsy content first; index.js calls content.includes
\* on whatever it is given
isFrontend(s, content) ==
    IF s = "v04"
    THEN [ret |-> IF content = NoContent THEN FALSE ELSE isFrontendV04(content),
          threw |-> FALSE]
    ELSE IF content = NoContent THEN [ret |-> FALSE, threw |-> TRUE]
    ELSE [ret |-> isFrontendV3(content), threw |-> FALSE]

InitFront ==
    /\ script \in Scripts
    /\ host \in {h \in Hosts : h.globalFns = <<>> /\ h.buttons = <<>>
                                /\ h.th = "absent" /\ h.es = "absent"
                                /\ h.et = "absent" /\ h.emitThrows = {}
                                /\ ~h.dispatchThrows /\ ~h.markerThrows}
    /\ mesid = [e \in Els |-> NoId]
    /\ dom \in {[e \in Els |-> IF e = 1 THEN <<Pre(c, FALSE, FALSE)>> ELSE <<>>]
                  : c \in Contents}
    /\ Observing({})
    /\ Idle

\* isFrontend is applied to the text of the block
FrontCall ==
    /\ lastCall.fn = "none"
    /\ LET r == isFrontend(script, dom[1][1].text)
       IN  lastCall' = [fn |-> "isFrontend", id |-> NoId, ret |-> r.ret,
                        trace |-> <<>>, escaped |-> r.threw]
    /\ UNCHANGED <<script, host, pageVars, obsVars, timerVars, histVars>>

NextFront == FrontCall

SpecFront == InitFront /\ [][NextFront]_vars

(***************************************************************************)
(* One message, every content: the evaluation and its re-render attempts.  *)
(***************************************************************************)
HostOf(th, es, et, emitThrows, dispatchThrows, markerThrows) ==
    [th |-> th, es |-> es, et |-> et, emitThrows |-> emitThrows,
     dispatchThrows |-> dispatchThrows, globalFns |-> <<>>, buttons |-> <<>>,
     markerThrows |-> markerThrows]

HostApi == HostOf("ok", "absent", "absent", {}, FALSE, FALSE)
HostBus == HostOf("absent", "ok", "MU", {}, FALSE, FALSE)
HostBusThrows == HostOf("absent", "ok", "MU", {MESSAGE_UPDATED}, FALSE, FALSE)
HostBare == HostOf("absent", "absent", "absent", {}, FALSE, FALSE)
HostMarker == HostOf("throws", "absent", "absent", {}, TRUE, FALSE)
HostFail == HostOf("throws", "noemit", "null", {}, TRUE, TRUE)

EvalHosts == {HostApi, HostBus, HostBusThrows, HostBare, HostMarker, HostFail}

\* what a translator leaves: blocks outside any TH-render
BarePres == {Pre(t, FALSE, FALSE) : t \in Texts}
Translations == SeqsUpTo(BarePres, MaxPres)

InitEval ==
    /\ script \in Scripts
    /\ host \in EvalHosts
    /\ mesid = [e \in Els |-> IF e = 1 THEN "1" ELSE NoId]
    /\ dom = [e \in Els |-> <<>>]
    /\ Observing({1})
    /\ Idle

NextEval ==
    \/ \E new \in Translations : Translate(1, new)
    \/ \E i \in 1..MaxPres : HostRender(1, i)
    \/ Tick
    \/ EvaluateV04(1)
    \/ \E rt \in retries : RetryFire(rt)
    \/ \E m \in markerTimers : MarkerRemove(m)
    \/ \E k \in Ids : EvaluateV3(k)

SpecEval == InitEval /\ [][NextEval]_vars

\* the event loop lets time pass and runs every timer callback that is due
SpecEvalFair ==
    /\ SpecEval
    /\ WF_vars(Tick)
    /\ WF_vars(EvaluateV04(1))
    /\ WF_vars(\E rt \in retries : RetryFire(rt))
    /\ WF_vars(\E m \in markerTimers : MarkerRemove(m))
    /\ WF_vars(\E k \in Ids : EvaluateV3(k))

(***************************************************************************)
(* One message that the host may take out of the chat.                     *)
(***************************************************************************)
NextDetach ==
    \/ NextEval
    \/ HostRemoveMessage(1)

SpecDetach == InitEval /\ [][NextDetach]_vars

(***************************************************************************)
(* One message whose .mes element carries a mesid attribute or none.       *)
(***************************************************************************)
InitNoId ==
    /\ script \in Scripts
    /\ host \in EvalHosts
    /\ mesid \in {[e \in Els |-> IF e = 1 THEN id ELSE NoId] : id \in SampleIds}
    /\ dom = [e \in Els |-> <<>>]
    /\ Observing({1})
    /\ Idle

SpecNoId == InitNoId /\ [][NextEval]_vars

(***************************************************************************)
(* Two messages: the debounce timers.                                      *)
(***************************************************************************)
DebDoms == {<<Pre(TxtBody, FALSE, FALSE)>>}

InitDeb ==
    /\ script \in Scripts
    /\ host = HostBus
    /\ mesid = [e \in Els |-> IF e = 1 THEN "1" ELSE "2"]
    /\ dom = [e \in Els |-> <<Pre(TxtBody, TRUE, TRUE)>>]
    /\ Observing(Els)
    /\ Idle

NextDeb ==
    \/ \E e \in Els, new \in DebDoms : Translate(e, new)
    \/ \E e \in Els : HostRender(e, 1)
    \/ \E e \in Els, id \in Ids : Renumber(e, id)
    \/ Tick
    \/ \E e \in Els : EvaluateV04(e)
    \/ \E k \in Ids : EvaluateV3(k)

SpecDeb == InitDeb /\ [][NextDeb]_vars

(***************************************************************************)
(* Setup, messages coming and going: the observers.                        *)
(***************************************************************************)
InitObs ==
    /\ script \in Scripts
    /\ host \in {HostBus, HostBare}
    /\ chatEl \in BOOLEAN
    /\ mesid = [e \in Els |-> IF e = 1 THEN "0" ELSE "1"]
    /\ inChat \in {[e \in Els |-> chatEl /\ e \in S] : S \in SUBSET Els}
    /\ dom = [e \in Els |-> <<Pre(TxtBody, TRUE, TRUE)>>]
    /\ chatObservers = 0
    /\ observed = {}
    /\ observers = [e \in Els |-> 0]
    /\ messageId = [e \in Els |-> NoId]
    /\ lastCall = NoCall
    /\ setupTimer = 0
    /\ timer = [e \in Els |-> NoTimer]
    /\ debounceTimers = [k \in Ids |-> NoDebounce]
    /\ retries = {}
    /\ markerTimers = {}
    /\ rescans = {}
    /\ sinceBatch = [e \in Els |-> 0]
    /\ dirty = [e \in Els |-> FALSE]
    /\ lastStep = Step("init", NoEl, FALSE, FALSE)

NextObs ==
    \/ setup
    \/ setupObservers
    \/ ChatAppears
    \/ \E e \in Els : HostAddMessage(e)
    \/ \E e \in Els, how \in InsertWays : HostInsert(e, how)
    \/ \E e \in Els : HostRemoveMessage(e)
    \/ ChatLoaded
    \/ \E r \in rescans : Rescan(r)
    \/ Tick

SpecObs == InitObs /\ [][NextObs]_vars

\* the event loop runs every callback that is due: setup at start, the
\* timers when their time has come
SpecObsFair ==
    /\ SpecObs
    /\ WF_vars(setup)
    /\ WF_vars(setupObservers)
    /\ WF_vars(Tick)
    /\ WF_vars(\E r \in rescans : Rescan(r))

(***************************************************************************)
(* Properties.                                                             *)
(***************************************************************************)
\* the text holds one of the markers, letter for letter
HoldsMarker(text) ==
    \E i \in 1..Len(FRONTEND_MARKERS) : includes(text, FRONTEND_MARKERS[i])

\* the text holds one of the markers in some letter case
HoldsMarkerAnyCase(text) ==
    \E i \in 1..Len(FRONTEND_MARKERS) :
        includes(toLowerCase(text), FRONTEND_MARKERS[i])

InRenderedContainer(pre) == pre.th /\ pre.iframe

\* some block with a marker has no rendered iframe container
MissingPreview(pres) ==
    \E i \in 1..Len(pres) : HoldsMarker(pres[i].text) /\ ~InRenderedContainer(pres[i])

MissingPreviewAnyCase(pres) ==
    \E i \in 1..Len(pres) :
        HoldsMarkerAnyCase(pres[i].text) /\ ~InRenderedContainer(pres[i])

\* the step taken is the debounced evaluation of e
EvalOf(e) == lastStep'.op = "eval" /\ lastStep'.el = e

\* the debounce timers that will evaluate e: <<slot, remaining ms>>
PendingTimers(e) ==
    IF script = "v04"
    THEN IF timer[e] = NoTimer THEN {} ELSE {<<"closure", timer[e]>>}
    ELSE {<<k, debounceTimers[k].rem>> : k \in {x \in Ids : debounceTimers[x].el = e}}

\* C1: whenever a debounced evaluation of a message runs and one of its code
\* blocks (the first or a later one, whatever the other blocks are) holds a
\* front-end marker and is not inside a rendered iframe container, that
\* evaluation calls the re-render function of the script.
C1_AttemptWhenPreviewMissing ==
    [][\A e \in Els : (EvalOf(e) /\ MissingPreview(dom[e])) => lastStep'.called]_vars

C3_OneEvaluationPerBurst ==
    [][\A e \in Els :
        /\ dirty'[e] =>
              \E k \in {"closure"} \cup Ids :
                  PendingTimers(e)' = {<<k, Debounce(script) - sinceBatch'[e]>>}
        /\ EvalOf(e) => (dirty[e] /\ sinceBatch[e] = Debounce(script))
      ]_vars

Strategies == <<"api", "emit", "dom", "global", "click", "marker">>
Rank(s) == CHOOSE i \in 1..Len(Strategies) : Strategies[i] = s

\* the strategies the host makes applicable to a call with an element
Applicable(h) ==
    {s \in {"api"} : h.th \in {"ok", "throws"}}
    \cup {s \in {"emit"} : h.es # "absent"}
    \cup {"dom"}
    \cup {s \in {"global"} : h.globalFns # <<>>}
    \cup {s \in {"click"} : \E i \in 1..Len(h.buttons) : h.buttons[i] # "nomatch"}
    \cup {"marker"}

\* C4: in one call of tryTriggerRerender the strategies are tried in the
\* order host API, event bus, DOM event, global functions, button click,
\* marker; no applicable strategy is skipped on the way; the call stops at the
\* first attempt that does not throw, so at most one attempt succeeds and it
\* is the last one made.
C4_OrderedStopAtFirstSuccess ==
    lastCall.fn = "tryTriggerRerender" =>
        LET t == lastCall.trace
        IN  /\ \A i, j \in 1..Len(t) : i < j => Rank(t[i].s) <= Rank(t[j].s)
            /\ \A i \in 1..Len(t) : t[i].ok => i = Len(t)
            /\ \A i \in 1..Len(t) : \A s \in Applicable(host) :
                  Rank(s) < Rank(t[i].s) => \E j \in 1..i : t[j].s = s
            /\ (\A i \in 1..Len(t) : ~t[i].ok) =>
                  \A s \in Applicable(host) : \E j \in 1..Len(t) : t[j].s = s

\* C4 witness: the host API threw, the event bus threw for the first names
\* and then took one, and the later strategies were applicable but not tried
C4_Witness ==
    /\ lastCall.fn = "tryTriggerRerender"
    /\ Len(lastCall.trace) = 4
    /\ lastCall.trace[1].s = "api" /\ ~lastCall.trace[1].ok
    /\ lastCall.trace[4].s = "emit" /\ lastCall.trace[4].ok
    /\ host.globalFns # <<>> /\ host.buttons # <<>>

\* C5: no exception leaves a timer callback: every call into the host is
\* wrapped, in both scripts.
C5_NoExceptionEscapes == ~lastCall.escaped

\* C6: a message text never has more than one observer of the script.
C6_AtMostOneObserver == \A e \in Els : observers[e] <= 1

\* C7: an evaluation calls tryTriggerRerender at most once and schedules one
\* retry, 250 ms ahead, exactly when that call returned false; a retry calls
\* it once and schedules nothing; nothing else schedules or drops a retry.
C7_SingleRetry ==
    [][/\ \A e \in Els : EvalOf(e) =>
            IF lastStep'.called /\ lastCall'.fn = "tryTriggerRerender" /\ ~lastCall'.ret
            THEN /\ Cardinality(retries' \ retries) = 1
                 /\ \A r \in retries' \ retries : r.el = e /\ r.rem = RETRY_MS
                 /\ retries \subseteq retries'
            ELSE retries' = retries
       /\ lastStep'.op = "retry" =>
            /\ retries' \subseteq retries
            /\ Cardinality(retries') = Cardinality(retries) - 1
       /\ lastStep'.op \notin {"eval", "retry", "tick"} => retries' = retries
       /\ lastStep'.op = "tick" => Cardinality(retries') = Cardinality(retries)
      ]_vars

\* C7 witness: the immediate call returned false, its retry ran and returned
\* false too, and no retry is pending
C7_Witness ==
    /\ lastStep.op = "retry"
    /\ lastCall.fn = "tryTriggerRerender" /\ ~lastCall.ret
    /\ retries = {}

\* C8: a qualifying mutation of message a leaves the pending evaluation of
\* every other message b as it is.
C8_TimersPerMessage ==
    [][\A a \in Els : \A b \in Els \ {a} :
        (lastStep'.op = "mutate" /\ lastStep'.el = a /\ lastStep'.armed) =>
            PendingTimers(b)' = PendingTimers(b)
      ]_vars

\* a timer of e that is pending before the step and neither fires in it nor
\* goes on after it
Cancelled(e) ==
    \E p \in PendingTimers(e) :
        /\ ~(EvalOf(e) /\ p[2] = 0)
        /\ p \notin PendingTimers(e)'
        /\ ~(lastStep'.op = "tick" /\ \E q \in PendingTimers(e)' : q[1] = p[1] /\ q[2] < p[2])

\* C9: at most one debounce timer is pending per message, and a pending
\* timer is cancelled only by a qualifying mutation of the same message,
\* which puts a new timer in its place.
C9_OnePendingTimer ==
    [][\A e \in Els :
        /\ Cardinality(PendingTimers(e)') <= 1
        /\ Cancelled(e) =>
              /\ lastStep'.op = "mutate" /\ lastStep'.el = e /\ lastStep'.armed
              /\ PendingTimers(e)' # {}
      ]_vars

C11_IsFrontendExact ==
    lastCall.fn = "isFrontend" =>
        LET c == dom[1][1].text
        IN  /\ ~lastCall.escaped
            /\ lastCall.ret = (c # NoContent /\ HoldsMarker(c))
            /\ isFrontend("v04", c) = isFrontend("v3", c)

\* C12: in index.js an evaluation runs only when the text container of the
\* message has not been mutated during the 600 ms before it.  A timer fires
\* when its remaining time is 0, so this is: after any mutation of the
\* container (nodes added, removed or replaced) every timer that will evaluate
\* the message has the whole 600 ms left.
C12_QuietBeforeEvaluation ==
    [][\A e \in Els :
        (script = "v3" /\ lastStep'.op = "mutate" /\ lastStep'.el = e) =>
            \A p \in PendingTimers(e)' : p[2] = DEBOUNCE_V3
      ]_vars

\* C13: every message text that is inside the chat (there when setup runs,
\* appended later as a .mes, inserted inside a wrapper, or put into a .mes
\* that is already there) gets an observer of the script; it is checked for
\* a text that stays in the chat.
C13_EveryContainerObserved ==
    \A e \in Els : [](inChat[e] => <>(observers[e] > 0 \/ ~inChat[e]))

\* C14: index.js polls every second while #chat is missing: a run of
\* setupObservers without #chat installs nothing and schedules the next run
\* 1000 ms ahead; a run with #chat installs one chat observer and one
\* observer on each message text of the chat; it runs with #chat only once,
\* no run is scheduled after it, and until then no observer exists and a run
\* is scheduled.
C14_PollUntilChatThenInstallOnce ==
    [][script = "v3" =>
        /\ chatObservers' <= 1
        /\ chatObservers' = 0 =>
              /\ \A e \in Els : observers'[e] = 0
              /\ setupTimer' \in 0..SETUP_RETRY_MS
        /\ chatObservers' = 1 => setupTimer' = NoTimer
        /\ (lastStep'.op = "setup" /\ ~chatEl) =>
              /\ chatObservers' = 0
              /\ setupTimer' = SETUP_RETRY_MS
        /\ (lastStep'.op = "setup" /\ chatEl) =>
              /\ chatObservers = 0 /\ chatObservers' = 1
              /\ \A e \in Els : observers'[e] = IF inChat[e] THEN 1 ELSE 0
      ]_vars

\* C14 witness: index.js found #chat and installed its observers; a message
\* of the chat is observed and no further run is scheduled
C14_Witness ==
    /\ script = "v3"
    /\ lastStep.op = "setup"
    /\ chatObservers = 1
    /\ setupTimer = NoTimer
    /\ \E e \in Els : inChat[e] /\ observers[e] = 1

\* the call made in the step ended with an inserted marker
MarkerInserted ==
    /\ lastStep'.op \in {"eval", "retry"} /\ lastStep'.called
    /\ lastCall'.trace # <<>>
    /\ lastCall'.trace[Len(lastCall'.trace)].s = "marker"
    /\ lastCall'.trace[Len(lastCall'.trace)].ok

\* C15: the marker strategy changes nothing for good: inserting a marker
\* leaves the blocks of the message as they are and schedules its removal
\* 300 ms ahead; every marker in a message text has its removal pending, no
\* more than 300 ms ahead; the removal takes the marker out and nothing else;
\* so when no removal is pending no marker is left.
C15_MarkerRemovedAfter300 ==
    [][/\ \A m \in markerTimers' : m.rem \in 0..MARKER_MS
       /\ MarkerInserted =>
             /\ dom' = dom
             /\ \E m \in markerTimers' \ markerTimers :
                    m.el = lastStep'.el /\ m.rem = MARKER_MS /\ m.inDom
       /\ lastStep'.op = "unmark" =>
             /\ dom' = dom
             /\ \E m \in markerTimers : m.rem = 0 /\ markerTimers' = markerTimers \ {m}
       /\ \A e \in Els : (\A m \in markerTimers' : m.el # e) => MarkersIn(e)' = {}
      ]_vars

\* C15 witness: a marker was inserted, 300 ms later the script took it out of
\* the message text (the observer saw the removal), and the text holds no
\* marker and has no removal pending
C15_Witness ==
    /\ lastStep.op = "unmark" /\ lastStep.armed
    /\ lastCall.fn = "tryTriggerRerender"
    /\ lastCall.trace[Len(lastCall.trace)].s = "marker"
    /\ markerTimers = {}

\* C16: if from some point on neither the translator nor the host changes
\* the message, the script makes only finitely many re-render attempts: from
\* some point on no step calls the re-render function.
C16_Quiescence ==
    <>[][lastStep'.op # "mutate"]_vars => <>[][~lastStep'.called]_vars

\* C17: a timer callback (debounced evaluation or 250 ms retry) that runs for
\* a message that is no longer in the chat calls nothing in the host and
\* changes no DOM.
C17_NoRequestForRemovedMessage ==
    [][\A e \in Els :
        (~inChat[e] /\ lastStep'.op \in {"eval", "retry"} /\ lastStep'.el = e) =>
            /\ ~lastStep'.called
            /\ UNCHANGED <<lastCall, dom, markerTimers>>
      ]_vars

\* C18: for a message whose .mes element carries no identifier no timer
\* callback calls the host API or emits an event; the host is not asked to
\* refresh message 0 for it.
C18_NoRequestWithoutId ==
    [][\A e \in Els :
        (mesid[e] = NoId /\ lastStep'.op \in {"eval", "retry"} /\ lastStep'.el = e
            /\ lastStep'.called) =>
            \A i \in 1..Len(lastCall'.trace) : lastCall'.trace[i].s \notin {"api", "emit"}
      ]_vars

\* C19: every re-render request carries the number of the identifier that
\* the message has when the request is made, also after the host has
\* renumbered the message.
C19_RequestCarriesCurrentId ==
    [][\A e \in Els :
        (lastStep'.op \in {"eval", "retry"} /\ lastStep'.el = e /\ lastStep'.called) =>
            \A i \in 1..Len(lastCall'.trace) :
                lastCall'.trace[i].n = Number(mesid[e])
      ]_vars

====
